---- MODULE Spec2Model ----
(***************************************************************************)
(* The WebSocket hub of ngeran/thinknet (backend/src): the connection      *)
(* registry (api/state.rs, ConnectionManager), the tokio broadcast bus it  *)
(* owns, the per-connection session of routes/websocket.rs (handle_socket: *)
(* the receiver loop and the spawned sender task) and the Redis relay      *)
(* (services/redis_service.rs: start_redis_listener and its attempts).     *)
(*                                                                         *)
(* Spec and FairSpec follow two sessions and leave the publisher open;     *)
(* RelaySpec and FairRelaySpec follow the relay task and one session.      *)
(*                                                                         *)
(* LockSpec and FairLockSpec follow two sessions with the guards of the    *)
(* two Mutexes taken step by step; BroadcastSpec follows one session, the  *)
(* relay's publishes and ConnectionManager::broadcast.                     *)
(*                                                                         *)
(* LagSpec and FairLagSpec follow two sessions through one burst of        *)
(* publishes long enough to overrun the ring of a receiver that is not     *)
(* drained.                                                                *)
(*                                                                         *)
(* A step is what one task does between two suspension points that other  *)
(* tasks can observe.  A critical section of the subscriptions Mutex has   *)
(* no .await in it and the Mutex excludes every other one, so under Spec   *)
(* and RelaySpec taking the guard, the map operation and the release are   *)
(* one step.                                                               *)
(***************************************************************************)
EXTENDS Naturals, Sequences, FiniteSets, TLC

\* ----------------------------------------------------------------- bounds
MaxPub == 2
\* Relay sessions (successful pattern subscriptions) that are told apart; the
\* relay itself goes on after them.
MaxSessions == 2

\* Publishes followed under LockSpec.
LockMaxPub == 1

\* ConnectionManager::BROADCAST_CHANNEL_CAPACITY (state.rs:26)
BROADCAST_CHANNEL_CAPACITY == 100

\* tokio::sync::broadcast::channel(capacity) builds its ring with
\* capacity.next_power_of_two() slots, and a receiver can fall that many
\* values behind before it is overrun.
RECURSIVE NextPowerOfTwoFrom(_, _)
NextPowerOfTwoFrom(p, n) == IF p >= n THEN p ELSE NextPowerOfTwoFrom(2 * p, n)
NextPowerOfTwo(n) == NextPowerOfTwoFrom(1, n)
RingLength == NextPowerOfTwo(BROADCAST_CHANNEL_CAPACITY)

\* Publishes followed under LagSpec: one more than the ring holds.
LagMaxPub == RingLength + 1

Conns == {1, 2}

\* Channel names a client may put in the "channel" field of a command.
ClientNames == {"job:1", "ws_channel:job:1"}
\* Job ids the orchestrator publishes under.
JobIds == {"1"}
Payloads == {"p1"}
\* The body of an external message: a UTF-8 string, or bytes that are not one.
BadPayload == "<not utf-8>"
ExtPayloads == Payloads \cup {BadPayload}
\* The connections that take part when the relay is followed step by step.
RelayConns == {1}

NoChan == "<none>"
\* An envelope copy in a receiver's buffer carries two history fields: stale,
\* set once the receiver's registry entry has changed since the envelope was
\* published, and at, which then holds the entry as it was at the publish.
NoMsg == [seq |-> 0, channel |-> NoChan, data |-> NoChan, at |-> NoChan,
          stale |-> FALSE]
NoSend == [seq |-> 0, channel |-> NoChan, data |-> NoChan]

\* redis_service.rs:10  const REDIS_CHANNEL_PATTERN = "ws_channel:job:*"
REDIS_CHANNEL_PATTERN(ch) == \E j \in JobIds : ch = "ws_channel:job:" \o j

\* redis_service.rs:62  msg.get_payload::<String>()
GetPayloadOk(p) == p \in Payloads

\* Channels external publishers use; psubscribe hands the relay only those
\* that match the pattern.
ExternalChannels == {"ws_channel:job:1", "job:1"}

\* ------------------------------------------------------------ client frames
Absent == "<absent>"
\* kind: a text frame or a binary (non-text) frame.
\* json: what the text is: a JSON object, a JSON array, or none of the two.
\* type, channel: for an object, the values of its keys "type" and "channel";
\*     for an array, its first and its second element; Absent when the key or
\*     the element is missing or its value is not a string.
\* dup: the object has the key "type" or the key "channel" more than once.
\* extra: the text holds more than the two fields: for an object, keys other
\*     than "type" and "channel", once or repeated; for an array, elements
\*     after the second.
Frame(j, d, e, t, ch) ==
    [kind |-> "text", json |-> j, dup |-> d, extra |-> e, type |-> t,
     channel |-> ch]
\* The text {"type":"t","channel":"ch"}, without the key of an absent field.
TextFrame(t, ch) == Frame("object", FALSE, FALSE, t, ch)
\* The text ["t","ch"], or ["t"] when ch is absent.
ArrayFrame(t, ch) == Frame("array", FALSE, FALSE, t, ch)
\* The text ["t","ch","more"].
LongArrayFrame(t, ch) == Frame("array", FALSE, TRUE, t, ch)
\* The text {"type":"t","type":"t","channel":"ch"}.
DupFrame(t, ch) == Frame("object", TRUE, FALSE, t, ch)
\* The text {"type":"t","channel":"ch","x":1,"x":2}.
ExtraKeysFrame(t, ch) == Frame("object", FALSE, TRUE, t, ch)
NoText == Frame("none", FALSE, FALSE, Absent, Absent)
Binary == [kind |-> "binary", json |-> "none", dup |-> FALSE, extra |-> FALSE,
           type |-> Absent, channel |-> Absent]
Frames ==
    {TextFrame("SUBSCRIBE", n) : n \in ClientNames \cup {Absent}}
    \cup {TextFrame("UNSUBSCRIBE", n) : n \in {"job:1", Absent}}
    \cup {TextFrame("PING", "job:1"), TextFrame(Absent, "job:1")}
    \cup {ArrayFrame("SUBSCRIBE", "job:1"), ArrayFrame("UNSUBSCRIBE", "job:1"),
          ArrayFrame("UNSUBSCRIBE", Absent)}
    \cup {LongArrayFrame("SUBSCRIBE", "job:1"),
          LongArrayFrame("UNSUBSCRIBE", "job:1")}
    \cup {DupFrame("SUBSCRIBE", "job:1")}
    \cup {ExtraKeysFrame("SUBSCRIBE", "job:1"),
          ExtraKeysFrame("UNSUBSCRIBE", "job:1")}
    \cup {NoText, Binary}

\* No frame: the receiver loop is not inside a registry call.
NoFrame == [kind |-> "none", json |-> "none", dup |-> FALSE, extra |-> FALSE,
            type |-> Absent, channel |-> Absent]

\* The tasks of a session, and no task.
Reader(c) == <<"reader", c>>
Writer(c) == <<"writer", c>>
NoTask == <<"none", 0>>

\* serde_json::from_str::<ClientCommand>: both fields are required Strings.
\* The derived Deserialize takes a JSON object that has each of the two keys
\* once, and skips every other key of it, repeated or not; or a JSON array of
\* exactly the two values in the order of the fields: from_str fails with
\* "trailing characters" on a third element.
\* (a variant in which channel is optional, as with #[serde(default)])
ParsesWithoutChannel(f) ==
    /\ f.type # Absent
    /\ \/ f.json = "object" /\ ~f.dup
       \/ f.json = "array" /\ ~f.extra
ParsesAsClientCommand(f) ==
    /\ f.type # Absent
    /\ f.channel # Absent
    /\ \/ f.json = "object" /\ ~f.dup
       \/ f.json = "array" /\ ~f.extra

\* websocket.rs:128-141: the frames whose match arm calls subscribe or
\* unsubscribe, and with it takes the guard of subscriptions.
IsRegistryCommand(f) ==
    /\ f.kind = "text"
    /\ ParsesAsClientCommand(f)
    /\ f.type \in {"SUBSCRIBE", "UNSUBSCRIBE"}

\* websocket.rs:132  format!("ws_channel:{}", cmd.channel)
\* (a variant that puts another prefix before the name)
FullChannelNameJobPrefix(name) == "job:" \o name
FullChannelName(name) == "ws_channel:" \o name

VARIABLES
    subscriptions,  \* ConnectionManager.subscriptions: HashMap id -> channel
    connections,    \* ConnectionManager.connections: the ids it holds
    rpc,            \* per connection: where handle_socket's receiver loop is
    wpc,            \* per connection: where the spawned sender task is
    wmsg,           \* per connection: redis_msg the sender task is handling
    queue,          \* per connection: values broadcast_rx has not yet received
    lagged,         \* per connection: broadcast_rx was overrun
    published,      \* every envelope handed to broadcast_sender.send, in order
    relay,          \* where start_redis_listener / try_connect_and_subscribe is
    \* history
    lastRecv,       \* per connection: seq of the last envelope recv() yielded
    lastSent,       \* per connection: the last text ws_sender.send delivered
    lastName,       \* per connection: cmd.channel of the SUBSCRIBE its entry is from
    removeCount,    \* per connection: completed remove_connection calls
    sessions,       \* pattern subscriptions the relay has established so far
    skipped,        \* malformed messages the relay skipped in this session
    drops,          \* the causes for which the relay has left an attempt so far
    pubAt,          \* per published envelope: sessions and skipped at its publish
    subEra,         \* per connection: sessions when its entry was written
    subsLock,       \* the task that holds the guard of subscriptions, if any
    connLock,       \* the task that holds the guard of connections, if any
    rcmd,           \* per connection: the command whose registry call waits
    pubsub          \* the pattern subscriptions the relay task holds open

vars == <<subscriptions, connections, rpc, wpc, wmsg, queue, lagged, published,
          relay, lastRecv, lastSent, lastName, removeCount, sessions, skipped,
          drops, pubAt, subEra, subsLock, connLock, rcmd, pubsub>>

\* The two Mutexes of ConnectionManager and who is waiting at the first.
lockVars == <<subsLock, connLock, rcmd>>

\* What only the steps of the relay task change.
relayVars == <<relay, sessions, skipped, drops, pubsub>>

\* ------------------------------------------------------------ the registry
\* HashMap::get, with a miss as NoChan
Entry(subs, id) == IF id \in DOMAIN subs THEN subs[id] ELSE NoChan

\* state.rs:54-58  subs.insert(connection_id, channel_name)
\* (a variant that keeps an existing entry: first write wins)
SubscribeKeepFirst(subs, id, ch) ==
    IF id \in DOMAIN subs THEN subs
    ELSE [x \in DOMAIN subs \cup {id} |-> IF x = id THEN ch ELSE subs[x]]
Subscribe(subs, id, ch) ==
    [x \in DOMAIN subs \cup {id} |-> IF x = id THEN ch ELSE subs[x]]

\* state.rs:61-65  subs.remove(connection_id)
\* (a variant that blanks the entry instead of removing it)
UnsubscribeBlank(subs, id) ==
    [x \in DOMAIN subs |-> IF x = id THEN "" ELSE subs[x]]
\* (a variant that removes every entry: subs.clear())
UnsubscribeClearsAll(subs, id) == [x \in {} |-> NoChan]
Unsubscribe(subs, id) == [x \in DOMAIN subs \ {id} |-> subs[x]]

\* websocket.rs:82-90  subs.get(id).map(|s| s == &redis_msg.channel).unwrap_or(false)
\* (variants: one that does not compare the channel, one with unwrap_or(true))
IsSubscribedAny(subs, id, ch) == id \in DOMAIN subs
IsSubscribedDefaultTrue(subs, id, ch) == id \notin DOMAIN subs \/ subs[id] = ch
IsSubscribed(subs, id, ch) == id \in DOMAIN subs /\ subs[id] = ch

\* --------------------------------------------------------- the broadcast bus
\* A receiver exists from broadcast_sender.subscribe() (websocket.rs:61) until
\* the sender task, which owns it, ends.
HasReceiver(c) == rpc[c] # "new" /\ wpc[c] # "stopped"

\* What one send leaves in a receiver's view of the ring: the newest
\* RingLength values.
Enqueue(q, m) ==
    IF Len(q) < RingLength THEN Append(q, m)
    ELSE Append(Tail(q), m)

\* History: the copies connection c has not yet disposed of are marked once its
\* registry entry changes.
MarkStale(m, old) ==
    IF m = NoMsg \/ m.stale THEN m ELSE [m EXCEPT !.stale = TRUE, !.at = old]
MarkQueue(q, old) == [i \in 1..Len(q) |-> MarkStale(q[i], old)]

\* History: the registry entry of c when the copy m it holds was published.
AtPublish(c, m) == IF m.stale THEN m.at ELSE Entry(subscriptions, c)

TypeOK ==
    /\ DOMAIN subscriptions \subseteq Conns
    /\ connections \subseteq Conns
    /\ rpc \in [Conns -> {"new", "read", "remove_unsub", "remove_conn", "done"}]
    /\ wpc \in [Conns -> {"new", "recv", "lookup", "send", "lagwait", "stopped"}]
    /\ \A c \in Conns : Len(queue[c]) <= RingLength
    /\ Len(published) <= LagMaxPub
    /\ relay \in {"connect", "psubscribe", "listen", "sleep"}
    /\ sessions \in 0..MaxSessions
    /\ Len(pubAt) = Len(published)
    /\ subsLock \in {NoTask} \cup {Reader(c) : c \in Conns} \cup {Writer(c) : c \in Conns}
    /\ connLock \in {NoTask} \cup {Reader(c) : c \in Conns}
    /\ rcmd \in [Conns -> {NoFrame} \cup {f \in Frames : IsRegistryCommand(f)}]
    /\ pubsub \in {0, 1}

Init ==
    /\ subscriptions = << >>
    /\ connections = {}
    /\ rpc = [c \in Conns |-> "new"]
    /\ wpc = [c \in Conns |-> "new"]
    /\ wmsg = [c \in Conns |-> NoMsg]
    /\ queue = [c \in Conns |-> << >>]
    /\ lagged = [c \in Conns |-> FALSE]
    /\ published = << >>
    /\ lastRecv = [c \in Conns |-> 0]
    /\ lastSent = [c \in Conns |-> NoSend]
    /\ lastName = [c \in Conns |-> NoChan]
    /\ removeCount = [c \in Conns |-> 0]
    /\ relay = "connect"
    /\ sessions = 0
    /\ skipped = 0
    /\ drops = {}
    /\ pubAt = << >>
    /\ subEra = [c \in Conns |-> 0]
    /\ subsLock = NoTask
    /\ connLock = NoTask
    /\ rcmd = [c \in Conns |-> NoFrame]
    /\ pubsub = 0

\* --------------------------------------------------------------- the relay
\* redis_service.rs:70-84: a message of the pattern subscription is wrapped with
\* its channel name and payload and sent on the bus.  Spec takes this step at
\* any time, whatever the relay is doing, so what it shows of the sessions holds
\* for every schedule of the relay; RelaySpec takes it only from the relay's
\* message loop (RelayMessage).
\* (a variant with the back-pressure of a bounded queue: the send waits while
\* the buffer of any receiver is full)
PublishBlocking(ch, d) ==
    /\ REDIS_CHANNEL_PATTERN(ch)
    /\ \A c \in Conns :
        HasReceiver(c) => Len(queue[c]) < RingLength
    /\ published' = Append(published,
                           [seq |-> Len(published) + 1, channel |-> ch, data |-> d])
    /\ queue' = [c \in Conns |->
            IF HasReceiver(c)
            THEN Append(queue[c], [seq |-> Len(published) + 1, channel |-> ch,
                                   data |-> d, at |-> NoChan, stale |-> FALSE])
            ELSE queue[c]]
    /\ pubAt' = Append(pubAt, [session |-> sessions, skipped |-> skipped])
    /\ UNCHANGED <<subscriptions, connections, rpc, wpc, wmsg, lagged, lastRecv,
                   lastSent, lastName, removeCount, relayVars, subEra>>
    /\ UNCHANGED lockVars
Publish(ch, d) ==
    /\ REDIS_CHANNEL_PATTERN(ch)
    /\ LET env == [seq |-> Len(published) + 1, channel |-> ch, data |-> d]
       IN /\ published' = Append(published, env)
          /\ queue' = [c \in Conns |->
                IF HasReceiver(c)
                THEN Enqueue(queue[c], [seq |-> env.seq, channel |-> ch, data |-> d,
                                        at |-> NoChan,
                                        stale |-> FALSE])
                ELSE queue[c]]
          /\ lagged' = [c \in Conns |->
                IF HasReceiver(c) /\ Len(queue[c]) = RingLength
                THEN TRUE ELSE lagged[c]]
    /\ pubAt' = Append(pubAt, [session |-> sessions, skipped |-> skipped])
    /\ UNCHANGED <<subscriptions, connections, rpc, wpc, wmsg, lastRecv, lastSent, lastName,
                   removeCount>>
    /\ UNCHANGED <<relayVars, subEra>>
    /\ UNCHANGED lockVars

\* A counter of the history that stops at its bound.
UpTo(n, max) == IF n < max THEN n + 1 ELSE n

\* redis_service.rs:47-49: Client::open(url)? and get_tokio_connection().await?
\* succeed, or one of them fails: try_connect_and_subscribe returns Err and
\* start_redis_listener (33-37) starts its 5 second sleep.
\* (a variant in which the error leaves start_redis_listener: the task ends)
RelayConnectFailureExits(ok) ==
    /\ relay = "connect"
    /\ relay' = IF ok THEN "psubscribe" ELSE "exited"
    /\ drops' = IF ok THEN drops ELSE drops \cup {"connect"}
    /\ UNCHANGED <<subscriptions, connections, rpc, wpc, wmsg, queue, lagged,
                   published, lastRecv, lastSent, lastName, removeCount,
                   sessions, skipped, pubAt, subEra>>
    /\ UNCHANGED pubsub
    /\ UNCHANGED lockVars
RelayConnect(ok) ==
    /\ relay = "connect"
    /\ relay' = IF ok THEN "psubscribe" ELSE "sleep"
    /\ drops' = IF ok THEN drops ELSE drops \cup {"connect"}
    /\ UNCHANGED <<subscriptions, connections, rpc, wpc, wmsg, queue, lagged,
                   published, lastRecv, lastSent, lastName, removeCount,
                   sessions, skipped, pubAt, subEra>>
    /\ UNCHANGED pubsub
    /\ UNCHANGED lockVars

\* redis_service.rs:51-57: psubscribe(REDIS_CHANNEL_PATTERN).await? succeeds and
\* the message loop starts, or it fails: Err, and the 5 second sleep starts.
\* (a variant in which a failed subscription takes the sessions down with it)
RelayPsubscribeFailureStopsSessions(ok) ==
    /\ relay = "psubscribe"
    /\ relay' = IF ok THEN "listen" ELSE "sleep"
    /\ sessions' = IF ok THEN UpTo(sessions, MaxSessions) ELSE sessions
    /\ skipped' = IF ok THEN 0 ELSE skipped
    /\ drops' = IF ok THEN drops ELSE drops \cup {"subscribe"}
    /\ rpc' = IF ok THEN rpc
              ELSE [c \in Conns |-> IF rpc[c] = "read" THEN "done" ELSE rpc[c]]
    /\ UNCHANGED <<subscriptions, connections, wpc, wmsg, queue, lagged,
                   published, lastRecv, lastSent, lastName, removeCount,
                   pubAt, subEra>>
    /\ pubsub' = IF ok THEN pubsub + 1 ELSE 0
    /\ UNCHANGED lockVars
RelayPsubscribe(ok) ==
    /\ relay = "psubscribe"
    /\ relay' = IF ok THEN "listen" ELSE "sleep"
    /\ sessions' = IF ok THEN UpTo(sessions, MaxSessions) ELSE sessions
    /\ skipped' = IF ok THEN 0 ELSE skipped
    /\ drops' = IF ok THEN drops ELSE drops \cup {"subscribe"}
    /\ UNCHANGED <<subscriptions, connections, rpc, wpc, wmsg, queue, lagged,
                   published, lastRecv, lastSent, lastName, removeCount,
                   pubAt, subEra>>
    /\ pubsub' = IF ok THEN pubsub + 1 ELSE 0
    /\ UNCHANGED lockVars

\* redis_service.rs:59-85: message_stream.next() yields a message of the
\* pattern subscription.  If its payload cannot be extracted the loop
\* continues with the next message; otherwise the message is published.
\* (variants: one in which the extraction error is returned with ?, one in
\* which the error of a send without receivers is returned with ?)
RelayMessageBadIsFatal(ch, p) ==
    /\ relay = "listen"
    /\ REDIS_CHANNEL_PATTERN(ch)
    /\ IF GetPayloadOk(p)
       THEN Publish(ch, p)
       ELSE /\ relay' = "sleep"
            /\ pubsub' = 0
            /\ skipped' = UpTo(skipped, 1)
            /\ UNCHANGED <<subscriptions, connections, rpc, wpc, wmsg, queue,
                           lagged, published, lastRecv, lastSent, lastName,
                           removeCount, sessions, drops, pubAt, subEra>>
    /\ UNCHANGED lockVars
RelayMessageSendErrorIsFatal(ch, p) ==
    /\ relay = "listen"
    /\ REDIS_CHANNEL_PATTERN(ch)
    /\ IF GetPayloadOk(p) /\ \E c \in Conns : HasReceiver(c)
       THEN Publish(ch, p)
       ELSE /\ relay' = IF GetPayloadOk(p) THEN "sleep" ELSE relay
            /\ skipped' = IF GetPayloadOk(p) THEN skipped ELSE UpTo(skipped, 1)
            /\ drops' = IF GetPayloadOk(p) THEN drops \cup {"send"} ELSE drops
            /\ pubsub' = IF GetPayloadOk(p) THEN 0 ELSE pubsub
            /\ UNCHANGED <<subscriptions, connections, rpc, wpc, wmsg, queue,
                           lagged, published, lastRecv, lastSent, lastName,
                           removeCount, sessions, pubAt, subEra>>
    /\ UNCHANGED lockVars
RelayMessage(ch, p) ==
    /\ relay = "listen"
    /\ REDIS_CHANNEL_PATTERN(ch)
    /\ IF GetPayloadOk(p)
       THEN Publish(ch, p)
       ELSE /\ skipped' = UpTo(skipped, 1)
            /\ UNCHANGED <<subscriptions, connections, rpc, wpc, wmsg, queue,
                           lagged, published, relay, lastRecv, lastSent,
                           lastName, removeCount, sessions, drops, pubAt,
                           subEra, pubsub>>
    /\ UNCHANGED lockVars

\* redis_service.rs:59, 87 and 32-33: message_stream.next() yields None (the
\* connection was dropped or the stream ended), the loop ends,
\* try_connect_and_subscribe returns Ok(()) and start_redis_listener's Ok arm
\* goes round its loop to the next connection attempt.
\* The connection, the pubsub and its stream are locals of
\* try_connect_and_subscribe (47-59) and are dropped when it returns.
\* (variants: one in which the subscription list is emptied with the session,
\* one in which the pubsub outlives the attempt)
RelayStreamEndKeepsPubsub ==
    /\ relay = "listen"
    /\ relay' = "connect"
    /\ drops' = drops \cup {"end"}
    /\ UNCHANGED <<subscriptions, connections, rpc, wpc, wmsg, queue, lagged,
                   published, lastRecv, lastSent, lastName, removeCount,
                   sessions, skipped, pubAt, subEra>>
    /\ UNCHANGED pubsub
    /\ UNCHANGED lockVars
RelayStreamEndClears ==
    /\ relay = "listen"
    /\ relay' = "connect"
    /\ drops' = drops \cup {"end"}
    /\ subscriptions' = << >>
    /\ UNCHANGED <<connections, rpc, wpc, wmsg, queue, lagged,
                   published, lastRecv, lastSent, lastName, removeCount,
                   sessions, skipped, pubAt, subEra>>
    /\ pubsub' = 0
    /\ UNCHANGED lockVars
RelayStreamEnd ==
    /\ relay = "listen"
    /\ relay' = "connect"
    /\ drops' = drops \cup {"end"}
    /\ UNCHANGED <<subscriptions, connections, rpc, wpc, wmsg, queue, lagged,
                   published, lastRecv, lastSent, lastName, removeCount,
                   sessions, skipped, pubAt, subEra>>
    /\ pubsub' = 0
    /\ UNCHANGED lockVars

\* redis_service.rs:36 and 32: the sleep of the Err arm is over and the loop
\* makes the next connection attempt.
RelaySleepDone ==
    /\ relay = "sleep"
    /\ relay' = "connect"
    /\ UNCHANGED <<subscriptions, connections, rpc, wpc, wmsg, queue, lagged,
                   published, lastRecv, lastSent, lastName, removeCount,
                   sessions, skipped, drops, pubAt, subEra>>
    /\ UNCHANGED pubsub
    /\ UNCHANGED lockVars

\* ------------------------------------------------------- handle_socket start
\* websocket.rs:51-115: the id is made, the bus receiver is created and the
\* sender task is spawned; the receiver loop then waits for the first frame.
\* Connections are numbered in the order they are accepted.
\* (a variant whose new receiver starts with the value sent last, as a watch
\* channel's does)
AcceptReplaysLast(c) ==
    /\ rpc[c] = "new"
    /\ \A b \in Conns : b < c => rpc[b] # "new"
    /\ rpc' = [rpc EXCEPT ![c] = "read"]
    /\ wpc' = [wpc EXCEPT ![c] = "recv"]
    /\ queue' = [queue EXCEPT ![c] =
            IF published = << >> THEN << >>
            ELSE <<[seq |-> Len(published),
                    channel |-> published[Len(published)].channel,
                    data |-> published[Len(published)].data,
                    at |-> NoChan, stale |-> FALSE]>>]
    /\ UNCHANGED <<subscriptions, connections, wmsg, lagged, published, lastRecv,
                   lastSent, lastName, removeCount, relayVars, pubAt, subEra>>
    /\ UNCHANGED lockVars
Accept(c) ==
    /\ rpc[c] = "new"
    /\ \A b \in Conns : b < c => rpc[b] # "new"
    /\ rpc' = [rpc EXCEPT ![c] = "read"]
    /\ wpc' = [wpc EXCEPT ![c] = "recv"]
    /\ queue' = [queue EXCEPT ![c] = << >>]
    /\ UNCHANGED <<subscriptions, connections, wmsg, lagged, published, lastRecv, lastSent,
                   lastName, removeCount>>
    /\ UNCHANGED <<relayVars, pubAt, subEra>>
    /\ UNCHANGED lockVars

\* The registry entry of c becomes what subs gives it.
SetRegistry(c, subs) ==
    /\ subscriptions' = subs
    /\ IF Entry(subs, c) # Entry(subscriptions, c)
       THEN /\ queue' = [queue EXCEPT ![c] =
                            MarkQueue(queue[c], Entry(subscriptions, c))]
            /\ wmsg' = [wmsg EXCEPT ![c] =
                            MarkStale(wmsg[c], Entry(subscriptions, c))]
       ELSE UNCHANGED <<queue, wmsg>>

\* ------------------------------------------------------------ receiver loop
\* websocket.rs:119-157: one frame that does not end the loop, with the
\* registry call its command makes (state.rs:54-58, 61-65).
ClientFrame(c, f) ==
    /\ rpc[c] = "read"
    /\ IF f.kind = "text" /\ ParsesAsClientCommand(f) /\ f.type = "SUBSCRIBE"
       THEN /\ SetRegistry(c, Subscribe(subscriptions, c, FullChannelName(f.channel)))
            /\ lastName' = [lastName EXCEPT ![c] = f.channel]
            /\ subEra' = [subEra EXCEPT ![c] = sessions]
       ELSE IF f.kind = "text" /\ ParsesAsClientCommand(f) /\ f.type = "UNSUBSCRIBE"
       THEN /\ SetRegistry(c, Unsubscribe(subscriptions, c))
            /\ lastName' = [lastName EXCEPT ![c] = NoChan]
            /\ subEra' = [subEra EXCEPT ![c] = 0]
       ELSE UNCHANGED <<subscriptions, queue, wmsg, lastName, subEra>>
    /\ UNCHANGED <<connections, rpc, wpc, lagged, published, lastRecv, lastSent, removeCount>>
    /\ UNCHANGED <<relayVars, pubAt>>
    /\ rcmd[c] \in {NoFrame, f}
    /\ rcmd' = [rcmd EXCEPT ![c] = NoFrame]
    /\ IF IsRegistryCommand(f)
       THEN subsLock \in {NoTask, Reader(c)} /\ subsLock' = NoTask
       ELSE rcmd[c] = NoFrame /\ subsLock' = subsLock
    /\ UNCHANGED connLock

\* websocket.rs:150-153, 158-161, 119: a Close frame, a transport error, or the
\* end of the stream leaves the loop; remove_connection is called next.
\* (a variant that returns from handle_socket on a transport error without
\* the cleanup)
ClientGoneReturnsOnError(c, cause) ==
    /\ rpc[c] = "read"
    /\ cause \in {"close", "error", "end"}
    /\ rpc' = [rpc EXCEPT ![c] = IF cause = "error" THEN "done" ELSE "remove_unsub"]
    /\ UNCHANGED <<subscriptions, connections, wpc, wmsg, queue, lagged, published,
                   lastRecv, lastSent, lastName, removeCount>>
    /\ UNCHANGED <<relayVars, pubAt, subEra>>
    /\ rcmd[c] = NoFrame
    /\ UNCHANGED lockVars
ClientGone(c, cause) ==
    /\ rpc[c] = "read"
    /\ rpc' = [rpc EXCEPT ![c] = "remove_unsub"]
    /\ cause \in {"close", "error", "end"}
    /\ UNCHANGED <<subscriptions, connections, wpc, wmsg, queue, lagged, published,
                   lastRecv, lastSent, lastName, removeCount>>
    /\ UNCHANGED <<relayVars, pubAt, subEra>>
    /\ rcmd[c] = NoFrame
    /\ UNCHANGED lockVars

\* Variant: remove_connection does not unsubscribe.
RemoveUnsubscribeSkipped(c) ==
    /\ rpc[c] = "remove_unsub"
    /\ rpc' = [rpc EXCEPT ![c] = "remove_conn"]
    /\ UNCHANGED <<subscriptions, queue, wmsg, lastName, subEra>>
    /\ UNCHANGED <<connections, wpc, lagged, published, lastRecv, lastSent, removeCount>>
    /\ UNCHANGED <<relayVars, pubAt>>
    /\ subsLock \in {NoTask, Reader(c)}
    /\ subsLock' = NoTask
    /\ UNCHANGED <<connLock, rcmd>>

\* Variant: remove_connection keeps the guard of the subscriptions while it goes
\* on to take the guard of the connections.
RemoveUnsubscribeKeepsGuard(c) ==
    /\ rpc[c] = "remove_unsub"
    /\ SetRegistry(c, Unsubscribe(subscriptions, c))
    /\ lastName' = [lastName EXCEPT ![c] = NoChan]
    /\ subEra' = [subEra EXCEPT ![c] = 0]
    /\ rpc' = [rpc EXCEPT ![c] = "remove_conn"]
    /\ UNCHANGED <<connections, wpc, lagged, published, lastRecv, lastSent, removeCount>>
    /\ UNCHANGED <<relayVars, pubAt>>
    /\ subsLock \in {NoTask, Reader(c)}
    /\ subsLock' = Reader(c)
    /\ UNCHANGED <<connLock, rcmd>>

\* state.rs:69  remove_connection: self.unsubscribe(connection_id).await
RemoveUnsubscribe(c) ==
    /\ rpc[c] = "remove_unsub"
    /\ SetRegistry(c, Unsubscribe(subscriptions, c))
    /\ lastName' = [lastName EXCEPT ![c] = NoChan]
    /\ subEra' = [subEra EXCEPT ![c] = 0]
    /\ rpc' = [rpc EXCEPT ![c] = "remove_conn"]
    /\ UNCHANGED <<connections, wpc, lagged, published, lastRecv, lastSent, removeCount>>
    /\ UNCHANGED <<relayVars, pubAt>>
    /\ subsLock \in {NoTask, Reader(c)}
    /\ subsLock' = NoTask
    /\ UNCHANGED <<connLock, rcmd>>

\* state.rs:71-73 and websocket.rs:167-168: the id is erased from connections,
\* remove_connection returns, and handle_socket returns, which drops _tx and
\* ws_receiver.
RemoveConnection(c) ==
    /\ rpc[c] = "remove_conn"
    /\ connections' = connections \ {c}
    /\ rpc' = [rpc EXCEPT ![c] = "done"]
    /\ removeCount' = [removeCount EXCEPT ![c] = @ + 1]
    /\ UNCHANGED <<subscriptions, wpc, wmsg, queue, lagged, published, lastRecv, lastSent,
                   lastName>>
    /\ UNCHANGED <<relayVars, pubAt, subEra>>
    /\ connLock \in {NoTask, Reader(c)}
    /\ connLock' = NoTask
    /\ UNCHANGED <<subsLock, rcmd>>

\* -------------------------------------------------------------- sender task
\* websocket.rs:80  Ok(redis_msg) = broadcast_rx.recv()
\* (a variant that leaves the value in the receiver: the read position is not
\* advanced)
WriterRecvPeek(c) ==
    /\ wpc[c] = "recv"
    /\ ~lagged[c]
    /\ queue[c] # << >>
    /\ wmsg' = [wmsg EXCEPT ![c] = Head(queue[c])]
    /\ wpc' = [wpc EXCEPT ![c] = "lookup"]
    /\ lastRecv' = [lastRecv EXCEPT ![c] = Head(queue[c]).seq]
    /\ UNCHANGED <<subscriptions, connections, rpc, queue, lagged, published,
                   lastSent, lastName, removeCount, relayVars, pubAt, subEra>>
    /\ UNCHANGED lockVars
WriterRecv(c) ==
    /\ wpc[c] = "recv"
    /\ ~lagged[c]
    /\ queue[c] # << >>
    /\ wmsg' = [wmsg EXCEPT ![c] = Head(queue[c])]
    /\ queue' = [queue EXCEPT ![c] = Tail(queue[c])]
    /\ wpc' = [wpc EXCEPT ![c] = "lookup"]
    /\ lastRecv' = [lastRecv EXCEPT ![c] = Head(queue[c]).seq]
    /\ UNCHANGED <<subscriptions, connections, rpc, lagged, published, lastSent,
                   lastName, removeCount>>
    /\ UNCHANGED <<relayVars, pubAt, subEra>>
    /\ UNCHANGED lockVars

\* websocket.rs:80: recv() yields Err(Lagged), which the pattern Ok(redis_msg)
\* does not match: the branch is disabled and this select! is left waiting on
\* rx.recv() alone.
WriterLagged(c) ==
    /\ wpc[c] = "recv"
    /\ lagged[c]
    /\ lagged' = [lagged EXCEPT ![c] = FALSE]
    /\ wpc' = [wpc EXCEPT ![c] = "lagwait"]
    /\ UNCHANGED <<subscriptions, connections, rpc, wmsg, queue, published,
                   lastRecv, lastSent, lastName, removeCount>>
    /\ UNCHANGED <<relayVars, pubAt, subEra>>
    /\ UNCHANGED lockVars

\* websocket.rs:72, 111: rx.recv() yields None once _tx is dropped (handle_socket
\* has returned); with both branches disabled, else => break.  The task ends and
\* drops broadcast_rx.
WriterElse(c) ==
    /\ wpc[c] = "lagwait"
    /\ rpc[c] = "done"
    /\ wpc' = [wpc EXCEPT ![c] = "stopped"]
    /\ queue' = [queue EXCEPT ![c] = << >>]
    /\ UNCHANGED <<subscriptions, connections, rpc, wmsg, lagged, published,
                   lastRecv, lastSent, lastName, removeCount>>
    /\ UNCHANGED <<relayVars, pubAt, subEra>>
    /\ UNCHANGED lockVars

\* Variant: the guard taken for the lookup is not dropped at the end of the
\* block and is still held when the frame is serialized and sent.
WriterLookupKeepsGuard(c) ==
    /\ wpc[c] = "lookup"
    /\ IF IsSubscribed(subscriptions, c, wmsg[c].channel)
       THEN /\ wpc' = [wpc EXCEPT ![c] = "send"]
            /\ wmsg' = wmsg
       ELSE /\ wpc' = [wpc EXCEPT ![c] = "recv"]
            /\ wmsg' = [wmsg EXCEPT ![c] = NoMsg]
    /\ UNCHANGED <<subscriptions, connections, rpc, queue, lagged, published,
                   lastRecv, lastSent, lastName, removeCount>>
    /\ UNCHANGED <<relayVars, pubAt, subEra>>
    /\ subsLock \in {NoTask, Writer(c)}
    /\ subsLock' = Writer(c)
    /\ UNCHANGED <<connLock, rcmd>>

\* websocket.rs:82-92: is_subscribed is computed under the lock, and a message
\* that does not match is dropped.
WriterLookup(c) ==
    /\ wpc[c] = "lookup"
    /\ IF IsSubscribed(subscriptions, c, wmsg[c].channel)
       THEN /\ wpc' = [wpc EXCEPT ![c] = "send"]
            /\ wmsg' = wmsg
       ELSE /\ wpc' = [wpc EXCEPT ![c] = "recv"]
            /\ wmsg' = [wmsg EXCEPT ![c] = NoMsg]
    /\ UNCHANGED <<subscriptions, connections, rpc, queue, lagged, published,
                   lastRecv, lastSent, lastName, removeCount>>
    /\ UNCHANGED <<relayVars, pubAt, subEra>>
    /\ subsLock \in {NoTask, Writer(c)}
    /\ subsLock' = NoTask
    /\ UNCHANGED <<connLock, rcmd>>

\* websocket.rs:94-100  serde_json::to_string(&redis_msg): {channel, data}
\* (a variant that sends the payload under a fixed channel name)
SerializeAsBroadcast(m) == [channel |-> "broadcast", data |-> m.data]
Serialize(m) == [channel |-> m.channel, data |-> m.data]

\* websocket.rs:103-106: ws_sender.send(...).await succeeds, or fails and the
\* task breaks out of its loop, dropping broadcast_rx.
WriterSend(c, ok) ==
    /\ wpc[c] = "send"
    /\ wmsg' = [wmsg EXCEPT ![c] = NoMsg]
    /\ IF ok
       THEN /\ wpc' = [wpc EXCEPT ![c] = "recv"]
            /\ lastSent' = [lastSent EXCEPT ![c] =
                    [seq |-> wmsg[c].seq,
                     channel |-> Serialize(wmsg[c]).channel,
                     data |-> Serialize(wmsg[c]).data]]
            /\ UNCHANGED <<queue, lagged>>
       ELSE /\ wpc' = [wpc EXCEPT ![c] = "stopped"]
            /\ queue' = [queue EXCEPT ![c] = << >>]
            /\ lagged' = [lagged EXCEPT ![c] = FALSE]
            /\ UNCHANGED lastSent
    /\ UNCHANGED lastRecv
    /\ UNCHANGED <<subscriptions, connections, rpc, published, lastName,
                   removeCount>>
    /\ UNCHANGED <<relayVars, pubAt, subEra>>
    /\ UNCHANGED lockVars

\* Spec follows MaxPub publishes, far fewer than the ring holds: no receiver
\* is overrun, and the steps of a sender task that has seen a lag are followed
\* under LagSpec.
Next ==
    \/ \E ch \in ExternalChannels, d \in Payloads :
           Len(published) < MaxPub /\ Publish(ch, d)
    \/ \E c \in Conns : Accept(c)
    \/ \E c \in Conns, f \in Frames : ClientFrame(c, f)
    \/ \E c \in Conns, cause \in {"close", "error", "end"} : ClientGone(c, cause)
    \/ \E c \in Conns : RemoveUnsubscribe(c)
    \/ \E c \in Conns : RemoveConnection(c)
    \/ \E c \in Conns : WriterRecv(c)
    \/ \E c \in Conns : WriterLookup(c)
    \/ \E c \in Conns, ok \in BOOLEAN : WriterSend(c, ok)

Spec == Init /\ [][Next]_vars

\* The scheduler runs every spawned task that can take a step, and a tokio Mutex
\* is granted to every waiter.  No fairness is assumed of the clients or of the
\* publishers.
FairSpec ==
    /\ Spec
    /\ \A c \in Conns :
        /\ WF_vars(RemoveUnsubscribe(c))
        /\ WF_vars(RemoveConnection(c))
        /\ WF_vars(WriterRecv(c))
        /\ WF_vars(WriterLookup(c))
        /\ WF_vars(\E ok \in BOOLEAN : WriterSend(c, ok))

\* The hub with the relay task followed step by step: the bus is published to
\* only by the relay's message loop.
RelayNext ==
    \/ \E ok \in BOOLEAN : RelayConnect(ok)
    \/ \E ok \in BOOLEAN : RelayPsubscribe(ok)
    \/ \E ch \in ExternalChannels, p \in ExtPayloads :
           (GetPayloadOk(p) => Len(published) < MaxPub) /\ RelayMessage(ch, p)
    \/ RelayStreamEnd
    \/ RelaySleepDone
    \/ \E c \in RelayConns : Accept(c)
    \/ \E c \in RelayConns, f \in Frames : ClientFrame(c, f)
    \/ \E c \in RelayConns, cause \in {"close", "error", "end"} : ClientGone(c, cause)
    \/ \E c \in RelayConns : RemoveUnsubscribe(c)
    \/ \E c \in RelayConns : RemoveConnection(c)
    \/ \E c \in RelayConns : WriterRecv(c)
    \/ \E c \in RelayConns : WriterLookup(c)
    \/ \E c \in RelayConns, ok \in BOOLEAN : WriterSend(c, ok)

RelaySpec == Init /\ [][RelayNext]_vars

\* The relay is a spawned task too: an attempt to connect or to subscribe ends
\* one way or the other and the sleep ends.  Nothing is assumed of the external
\* bus: the stream may yield no message and never end.
FairRelaySpec ==
    /\ RelaySpec
    /\ WF_vars(\E ok \in BOOLEAN : RelayConnect(ok))
    /\ WF_vars(\E ok \in BOOLEAN : RelayPsubscribe(ok))
    /\ WF_vars(RelaySleepDone)
    /\ \A c \in RelayConns :
        /\ WF_vars(RemoveUnsubscribe(c))
        /\ WF_vars(RemoveConnection(c))
        /\ WF_vars(WriterRecv(c))
        /\ WF_vars(WriterLookup(c))
        /\ WF_vars(\E ok \in BOOLEAN : WriterSend(c, ok))

\* ---------------------------------------------------------------------------
\* The guards of the two Mutexes, one step at a time.  Under Spec and RelaySpec
\* a registry call takes its guard, touches the map and drops the guard in one
\* step; the actions below split the call where the code awaits lock().
\* ---------------------------------------------------------------------------

\* Frames followed under LockSpec: every kind of frame, the commands as JSON
\* objects of the two keys with one client name.  The name decides the value
\* that is stored, the form of a text that parses nothing at all, and neither
\* anything about the guards.
LockFrames ==
    {f \in Frames :
        f.channel # "ws_channel:job:1" /\ f.json # "array" /\ ~f.extra}

\* websocket.rs:119-141: a SUBSCRIBE or UNSUBSCRIBE frame has been read and
\* parsed and its match arm has called subscribe / unsubscribe, which awaits
\* the guard (state.rs:55, 62).
ReaderTakesCommand(c, f) ==
    /\ rpc[c] = "read"
    /\ rcmd[c] = NoFrame
    /\ IsRegistryCommand(f)
    /\ rcmd' = [rcmd EXCEPT ![c] = f]
    /\ UNCHANGED <<subscriptions, connections, rpc, wpc, wmsg, queue, lagged,
                   published, lastRecv, lastSent, lastName, removeCount>>
    /\ UNCHANGED <<relayVars, pubAt, subEra, subsLock, connLock>>

\* state.rs:55, 62: self.subscriptions.lock().await is granted to the reader,
\* inside subscribe, unsubscribe or the unsubscribe of remove_connection.
ReaderLocksSubscriptions(c) ==
    /\ \/ rpc[c] = "read" /\ rcmd[c] # NoFrame
       \/ rpc[c] = "remove_unsub"
    /\ subsLock = NoTask
    /\ subsLock' = Reader(c)
    /\ UNCHANGED <<subscriptions, connections, rpc, wpc, wmsg, queue, lagged,
                   published, lastRecv, lastSent, lastName, removeCount>>
    /\ UNCHANGED <<relayVars, pubAt, subEra, connLock, rcmd>>

\* state.rs:72: self.connections.lock().await is granted to the reader.
ReaderLocksConnections(c) ==
    /\ rpc[c] = "remove_conn"
    /\ connLock = NoTask
    /\ connLock' = Reader(c)
    /\ UNCHANGED <<subscriptions, connections, rpc, wpc, wmsg, queue, lagged,
                   published, lastRecv, lastSent, lastName, removeCount>>
    /\ UNCHANGED <<relayVars, pubAt, subEra, subsLock, rcmd>>

\* websocket.rs:83: subscriptions.lock().await is granted to the sender task.
WriterLocksSubscriptions(c) ==
    /\ wpc[c] = "lookup"
    /\ subsLock = NoTask
    /\ subsLock' = Writer(c)
    /\ UNCHANGED <<subscriptions, connections, rpc, wpc, wmsg, queue, lagged,
                   published, lastRecv, lastSent, lastName, removeCount>>
    /\ UNCHANGED <<relayVars, pubAt, subEra, connLock, rcmd>>

\* The registry call of a frame already taken runs to its end.
ReaderCompletes(c) == rcmd[c] # NoFrame /\ ClientFrame(c, rcmd[c])

\* The steps of the handler's own task that need a guard, and the steps of
\* the sender task that need none.  Each task is at one place of its code, so
\* at most one step of each kind is possible at a time.
ReaderRegistryStep(c) ==
    \/ ReaderCompletes(c)
    \/ RemoveUnsubscribe(c)
    \/ RemoveConnection(c)
WriterFreeStep(c) ==
    \/ WriterRecv(c)
    \/ \E ok \in BOOLEAN : WriterSend(c, ok)

LockNext ==
    \/ \E ch \in ExternalChannels, d \in Payloads :
           Len(published) < LockMaxPub /\ Publish(ch, d)
    \/ \E c \in Conns : Accept(c)
    \/ \E c \in Conns, f \in LockFrames : ClientFrame(c, f)
    \/ \E c \in Conns, f \in LockFrames : ReaderTakesCommand(c, f)
    \/ \E c \in Conns : ReaderLocksSubscriptions(c)
    \/ \E c \in Conns : ReaderLocksConnections(c)
    \/ \E c \in Conns : WriterLocksSubscriptions(c)
    \/ \E c \in Conns, cause \in {"close", "error", "end"} : ClientGone(c, cause)
    \/ \E c \in Conns : RemoveUnsubscribe(c)
    \/ \E c \in Conns : RemoveConnection(c)
    \/ \E c \in Conns : WriterRecv(c)
    \/ \E c \in Conns : WriterLookup(c)
    \/ \E c \in Conns, ok \in BOOLEAN : WriterSend(c, ok)

LockSpec == Init /\ [][LockNext]_vars

\* The scheduler runs every spawned task that can take a step.  A tokio Mutex
\* queues its waiters and grants the guard in order, so a task that waits for a
\* guard that is released again and again gets it: strong fairness for the
\* steps that need the guard.  No fairness is assumed of the clients.
FairLockSpec ==
    /\ LockSpec
    /\ \A c \in Conns :
        /\ SF_vars(ReaderRegistryStep(c))
        /\ SF_vars(WriterLookup(c))
        /\ WF_vars(WriterFreeStep(c))

\* ---------------------------------------------------------------------------
\* A slow consumer.  LagSpec follows one burst of LagMaxPub publishes, enough
\* to overrun the ring of a receiver that takes nothing.  The connections are
\* accepted and subscribe before the burst; during it the sender task of
\* connection SlowConn is not scheduled, every other sender task takes each
\* envelope before the next is published, and the clients are silent; after
\* it the clients send frames and leave as they like.
\* ---------------------------------------------------------------------------
SlowConn == 1

\* Commands the clients send under LagSpec.
LagFrames == {TextFrame("SUBSCRIBE", "job:1"), TextFrame("UNSUBSCRIBE", "job:1")}

\* The sender task of c, if it has a receiver, has taken all that was sent.
KeepsUp(c) == HasReceiver(c) => (queue[c] = << >> /\ wpc[c] = "recv")

BeforeBurst == Len(published) = 0
AfterBurst == Len(published) = LagMaxPub

LagNext ==
    \/ \E ch \in ExternalChannels, d \in Payloads :
           /\ Len(published) < LagMaxPub
           /\ \A c \in Conns \ {SlowConn} : KeepsUp(c)
           /\ Publish(ch, d)
    \/ \E c \in Conns : BeforeBurst /\ Accept(c)
    \/ \E c \in Conns, f \in LagFrames :
           (BeforeBurst \/ AfterBurst) /\ ClientFrame(c, f)
    \/ \E c \in Conns, cause \in {"close", "error", "end"} :
           AfterBurst /\ ClientGone(c, cause)
    \/ \E c \in Conns : RemoveUnsubscribe(c)
    \/ \E c \in Conns : RemoveConnection(c)
    \/ \E c \in Conns \ {SlowConn} : WriterRecv(c)
    \/ \E c \in Conns : WriterLagged(c)
    \/ \E c \in Conns : WriterElse(c)
    \/ \E c \in Conns \ {SlowConn} : WriterLookup(c)
    \/ \E c \in Conns \ {SlowConn}, ok \in BOOLEAN : WriterSend(c, ok)

LagSpec == Init /\ [][LagNext]_vars

\* The scheduler runs every spawned task that can take a step, the sender task
\* of the slow connection too once the burst is over.  No fairness is assumed
\* of the clients or of the publishers.
FairLagSpec ==
    /\ LagSpec
    /\ \A c \in Conns :
        /\ WF_vars(RemoveUnsubscribe(c))
        /\ WF_vars(RemoveConnection(c))
        /\ WF_vars(WriterLagged(c))
        /\ WF_vars(WriterElse(c))
    /\ \A c \in Conns \ {SlowConn} :
        /\ WF_vars(WriterRecv(c))
        /\ WF_vars(WriterLookup(c))
        /\ WF_vars(\E ok \in BOOLEAN : WriterSend(c, ok))

\* ---------------------------------------------------------------------------
\* ConnectionManager::broadcast, the hub's own publisher.
\* ---------------------------------------------------------------------------

\* state.rs:42-50: the message is wrapped with the channel "broadcast" and
\* sent on the bus; an error of the send (no receiver) is logged.
Broadcast(d) ==
    /\ LET env == [seq |-> Len(published) + 1, channel |-> "broadcast", data |-> d]
       IN /\ published' = Append(published, env)
          /\ queue' = [c \in Conns |->
                IF HasReceiver(c)
                THEN Enqueue(queue[c], [seq |-> env.seq, channel |-> "broadcast",
                                        data |-> d, at |-> NoChan,
                                        stale |-> FALSE])
                ELSE queue[c]]
          /\ lagged' = [c \in Conns |->
                IF HasReceiver(c) /\ Len(queue[c]) = RingLength
                THEN TRUE ELSE lagged[c]]
    /\ pubAt' = Append(pubAt, [session |-> sessions, skipped |-> skipped])
    /\ UNCHANGED <<subscriptions, connections, rpc, wpc, wmsg, lastRecv, lastSent, lastName,
                   removeCount>>
    /\ UNCHANGED <<relayVars, subEra>>
    /\ UNCHANGED lockVars

\* One session, the relay's publishes and the hub's own.
BroadcastNext ==
    \/ \E ch \in ExternalChannels, d \in Payloads :
           Len(published) < MaxPub /\ Publish(ch, d)
    \/ \E d \in Payloads : Len(published) < MaxPub /\ Broadcast(d)
    \/ \E c \in RelayConns : Accept(c)
    \/ \E c \in RelayConns, f \in Frames : ClientFrame(c, f)
    \/ \E c \in RelayConns, cause \in {"close", "error", "end"} : ClientGone(c, cause)
    \/ \E c \in RelayConns : RemoveUnsubscribe(c)
    \/ \E c \in RelayConns : RemoveConnection(c)
    \/ \E c \in RelayConns : WriterRecv(c)
    \/ \E c \in RelayConns : WriterLookup(c)
    \/ \E c \in RelayConns, ok \in BOOLEAN : WriterSend(c, ok)

BroadcastSpec == Init /\ [][BroadcastNext]_vars

\* ---------------------------------------------------------------- the claims
\* The sender task of c leaves its registry lookup in this step.
LookupStep(c) == wpc[c] = "lookup" /\ wpc'[c] # "lookup"
\* ws_sender.send of the sender task of c succeeds in this step.
SendOk(c) == wpc[c] = "send" /\ wpc'[c] = "recv"

X == "ws_channel:job:1"
Y == "ws_channel:ws_channel:job:1"

\* C1 as stated: an envelope published on channel X is forwarded by a
\* connection's sender task exactly when the connection's registry entry
\* equalled X at the time of the publish.
C1_ForwardedIffSubscribedAtPublish ==
    [][\A c \in Conns :
        LookupStep(c) =>
            (wpc'[c] = "send" <=> AtPublish(c, wmsg[c]) = wmsg[c].channel)]_vars

\* C1 amended: an envelope on channel X that a connection's sender task
\* receives is forwarded exactly when the connection's registry entry equals X
\* at the time the sender task looks it up, and what is then sent is that
\* envelope; no other connection is sent it.
C1_ForwardedIffSubscribedAtLookup ==
    [][\A c \in Conns :
        /\ LookupStep(c) =>
            (wpc'[c] = "send" <=> Entry(subscriptions, c) = wmsg[c].channel)
        /\ lastSent'[c] # lastSent[c] =>
            /\ SendOk(c)
            /\ lastSent'[c].seq = wmsg[c].seq
            /\ lastSent'[c].seq = lastRecv[c]]_vars

\* One publish has reached both connections: connection 1, subscribed to its
\* channel, was sent it, and connection 2, subscribed to another channel, holds
\* it at its lookup.
C1_Witness ==
    /\ lastSent[1].seq = 1 /\ lastSent[1].channel = X
    /\ Entry(subscriptions, 1) = X
    /\ wpc[2] = "lookup" /\ wmsg[2].seq = 1
    /\ Entry(subscriptions, 2) = Y

\* C2 as stated: once a connection's entry has been replaced by B, every
\* envelope sent to its client is on B (none is on the earlier channel A).
C2_OnlyCurrentChannelSent ==
    [][\A c \in Conns :
        (SendOk(c) /\ Entry(subscriptions, c) # NoChan)
            => lastSent'[c].channel = Entry(subscriptions, c)]_vars

\* C2 amended: once the subscribe call for B has completed, every envelope
\* that is published after that completion and sent to the client while B is
\* the entry is on B; an envelope on A published before the completion may
\* still be sent after it.
C2_OnlyCurrentChannelSentIfPublishedAfter ==
    [][\A c \in Conns :
        (SendOk(c) /\ Entry(subscriptions, c) # NoChan /\ ~wmsg[c].stale)
            => lastSent'[c].channel = Entry(subscriptions, c)]_vars

\* Connection 1 was subscribed to A = X (it was sent envelope 1), has since
\* subscribed to B = Y, and its sender task holds envelope 2, published on A
\* after the subscribe for B completed, at its lookup.
C2_Witness ==
    /\ lastSent[1].seq = 1 /\ lastSent[1].channel = X
    /\ Entry(subscriptions, 1) = Y
    /\ wpc[1] = "lookup" /\ wmsg[1].seq = 2 /\ wmsg[1].channel = X
    /\ ~wmsg[1].stale

\* C3 as stated: no send to the client transport happens while the
\* connection's registry entry is absent.
C3_NoSendWhileAbsent ==
    [][\A c \in Conns : SendOk(c) => Entry(subscriptions, c) # NoChan]_vars

\* C3 amended: an envelope sent to a connection while its registry entry is
\* absent was published before the entry was removed; so a connection that
\* never subscribed is sent nothing, and after an UNSUBSCRIBE or the teardown
\* completes no envelope published after the completion is sent.
C3_NoSendOfEnvelopePublishedWhileAbsent ==
    [][\A c \in Conns :
        (SendOk(c) /\ Entry(subscriptions, c) = NoChan) => wmsg[c].stale]_vars

\* Connection 1 was subscribed (it was sent envelope 1), its entry has since
\* been removed, and envelope 2, published after the removal, went through its
\* lookup without being sent; connection 2 never subscribed and envelope 2
\* went through its lookup too.
C3_Witness ==
    /\ lastSent[1].seq = 1
    /\ Entry(subscriptions, 1) = NoChan
    /\ lastRecv[1] = 2 /\ wpc[1] = "recv"
    /\ lastName[2] = NoChan /\ lastSent[2] = NoSend
    /\ lastRecv[2] = 2 /\ wpc[2] = "recv"

\* C4: exact-name matching.  An envelope whose channel is exactly the
\* channel name the connection's SUBSCRIBE carried is forwarded to it, and a
\* connection with no subscription is forwarded nothing.
C4_ExactClientNameMatch ==
    [][\A c \in Conns :
        LookupStep(c) =>
            /\ wmsg[c].channel = lastName[c] => wpc'[c] = "send"
            /\ lastName[c] = NoChan => wpc'[c] # "send"]_vars

\* C5: once handle_socket has returned for a connection (its read activity is
\* over and remove_connection is done), its sender task takes no further
\* envelope from its bus receiver.
C5_WriterStoppedWithReader ==
    [][\A c \in Conns : rpc[c] = "done" => lastRecv'[c] = lastRecv[c]]_vars

\* C6: once a connection's sender task has ended, its read activity is stopped
\* and remove_connection is eventually called, whatever the client does.
C6_ReaderStoppedWithWriter ==
    \A c \in Conns : (wpc[c] = "stopped") ~> (removeCount[c] = 1)

\* C7: remove_connection is called exactly once per connection: never more
\* than once, only by the teardown of handle_socket, and once the receiver
\* loop has been left (by a Close frame, a transport error or the end of the
\* stream) the call is made.
C7_RemoveExactlyOnce ==
    /\ [](\A c \in Conns :
            /\ removeCount[c] <= 1
            /\ removeCount[c] = 1 <=> rpc[c] = "done")
    /\ \A c \in Conns :
            (rpc[c] \in {"remove_unsub", "remove_conn"}) ~> (removeCount[c] = 1)

\* Connection 1 left its receiver loop and its remove_connection has
\* completed, while its sender task had already ended on a failed send.
C7_Witness ==
    /\ rpc[1] = "done" /\ removeCount[1] = 1
    /\ \E c \in Conns : rpc[c] = "done" /\ wpc[c] = "stopped"
    /\ \E c \in Conns : rpc[c] = "done" /\ wpc[c] = "recv"

\* C8: after remove_connection has completed for an id, a lookup of the id
\* finds no entry and no task or handle of that connection is left.
C8_NothingLeftAfterRemove ==
    \A c \in Conns :
        removeCount[c] >= 1 =>
            /\ Entry(subscriptions, c) = NoChan
            /\ wpc[c] = "stopped"
            /\ ~HasReceiver(c)

\* C9: the registry holds an entry for a connection only while both its read
\* activity and its sender task are alive.
C9_EntryImpliesTasksAlive ==
    \A c \in DOMAIN subscriptions :
        /\ rpc[c] \in {"read", "remove_unsub"}
        /\ wpc[c] \in {"recv", "lookup", "send", "lagwait"}

\* C10: subscribe(id, channel) always leaves id's entry equal to channel,
\* whether or not id had one, changes no other entry and changes nothing when
\* repeated; the entry of every connection is the channel of its last applied
\* subscribe.
C10_SubscribeOverwrites ==
    /\ \A c \in Conns :
            lastName[c] # NoChan
                => Entry(subscriptions, c) = "ws_channel:" \o lastName[c]
    /\ \A id \in Conns, ch \in {X, Y} :
        LET t == Subscribe(subscriptions, id, ch)
        IN /\ DOMAIN t = DOMAIN subscriptions \cup {id}
           /\ t[id] = ch
           /\ \A o \in DOMAIN t \ {id} : t[o] = subscriptions[o]
           /\ Subscribe(t, id, ch) = t

\* Connection 1 was subscribed to X (it was sent an envelope published on X)
\* and a later subscribe has replaced its entry by Y, while connection 2, for
\* which subscribe created an entry, keeps X.
C10_Witness ==
    /\ lastSent[1].channel = X
    /\ Entry(subscriptions, 1) = Y
    /\ Entry(subscriptions, 2) = X

\* C11: unsubscribe(id) removes id's entry, so that the lookup that follows
\* answers "not subscribed" for every channel; on an id with no entry it
\* changes nothing; and a lookup that misses is no error: the sender task drops
\* the envelope and waits for the next one, and the registry stays as it was.
C11_UnsubscribeAndMiss ==
    /\ [](\A id \in Conns :
            LET t == Unsubscribe(subscriptions, id)
            IN /\ id \notin DOMAIN t
               /\ \A ch \in {X, Y} : ~IsSubscribed(t, id, ch)
               /\ \A o \in DOMAIN t : t[o] = subscriptions[o]
               /\ DOMAIN t = DOMAIN subscriptions \ {id}
               /\ id \notin DOMAIN subscriptions => t = subscriptions
               /\ Unsubscribe(t, id) = t)
    /\ [][\A c \in Conns :
            (LookupStep(c) /\ Entry(subscriptions, c) = NoChan)
                => /\ wpc'[c] = "recv"
                   /\ subscriptions' = subscriptions
                   /\ lastSent' = lastSent]_vars

\* Connection 1 was subscribed (it was sent envelope 1) and has unsubscribed
\* with its session still open; envelope 2, published on the same channel,
\* missed at the lookup and the sender task is back at its receive.
C11_Witness ==
    /\ rpc[1] = "read"
    /\ lastSent[1] = [seq |-> 1, channel |-> X, data |-> "p1"]
    /\ 1 \notin DOMAIN subscriptions
    /\ Len(published) = 2 /\ published[2].channel = X
    /\ lastRecv[1] = 2 /\ wpc[1] = "recv" /\ wmsg[1] = NoMsg

\* The relay session in which envelope number n was published.
SessionOf(n) == pubAt[n].session

\* C12: relay reconnect.  No step of the relay between two sessions (a failed
\* attempt, the end of the stream, the sleep, the reconnect, the re-subscribe)
\* touches a connection's registry entry, its bus receiver or its tasks; every
\* envelope the relay publishes, in whichever session, is put into the receiver
\* of every open connection; and an envelope published in a later session than
\* the one in which the connection's entry was written is forwarded under the
\* very rule of the first session (its channel equals the entry) and is sent
\* as it was published: the client neither reconnects nor re-sends SUBSCRIBE.
C12_ReconnectResumesForwarding ==
    [][/\ relay' # relay =>
            UNCHANGED <<subscriptions, connections, rpc, wpc, wmsg, queue,
                        lagged, lastName, subEra>>
       /\ published' # published =>
            /\ relay = "listen" /\ relay' = "listen"
            /\ \A c \in Conns :
                HasReceiver(c) =>
                    /\ queue'[c] # << >>
                    /\ queue'[c][Len(queue'[c])].seq = Len(published')
                    /\ queue'[c][Len(queue'[c])].channel
                            = published'[Len(published')].channel
       /\ \A c \in Conns :
            (/\ LookupStep(c)
             /\ Entry(subscriptions, c) # NoChan
             /\ SessionOf(wmsg[c].seq) > subEra[c])
                => (wpc'[c] = "send" <=> Entry(subscriptions, c) = wmsg[c].channel)
       /\ \A c \in Conns :
            (SendOk(c) /\ SessionOf(wmsg[c].seq) > subEra[c])
                => /\ lastSent'[c].channel = published[wmsg[c].seq].channel
                   /\ lastSent'[c].data = published[wmsg[c].seq].data]_vars

\* Connection 1 subscribed to X in the relay's first session and has kept its
\* session open and its entry since; the stream ended, the relay subscribed
\* again, and envelope 2, published on X in the second session, has been sent
\* to connection 1.
C12_Witness ==
    /\ rpc[1] = "read"
    /\ subEra[1] = 1 /\ Entry(subscriptions, 1) = X
    /\ "end" \in drops
    /\ Len(pubAt) = 2 /\ SessionOf(1) = 1 /\ SessionOf(2) = 2
    /\ lastSent[1] = [seq |-> 2, channel |-> X, data |-> "p1"]

\* C13: lag isolation.  The publish step is never held up: it can be taken in
\* every state, however full or overrun the buffer of any connection is; it
\* puts the envelope into the receiver of every connection that has one,
\* whatever the state of the others; and no step of one connection's sender
\* task changes the receiver, the envelope in hand, the position or the sends
\* of another connection's.
C13_LagIsolation ==
    /\ [] ENABLED Publish(X, "p1")
    /\ [][/\ published' # published =>
                \A c \in Conns :
                    HasReceiver(c) =>
                        /\ queue'[c] # << >>
                        /\ queue'[c][Len(queue'[c])].seq = Len(published')
          /\ \A c, o \in Conns :
                (o # c /\ wpc'[c] # wpc[c]) =>
                    /\ queue'[o] = queue[o] /\ lagged'[o] = lagged[o]
                    /\ wmsg'[o] = wmsg[o] /\ wpc'[o] = wpc[o]
                    /\ lastSent'[o] = lastSent[o]]_vars

\* Connection 1 is subscribed and its sender task has never taken an envelope:
\* its ring is full and has been overrun.  All LagMaxPub envelopes were
\* published all the same, and connection 2, subscribed to their channel, has
\* been sent the last one.
C13_Witness ==
    /\ Entry(subscriptions, 1) = X /\ wpc[1] = "recv" /\ lastRecv[1] = 0
    /\ Len(queue[1]) = RingLength /\ lagged[1]
    /\ Head(queue[1]).seq = LagMaxPub - RingLength + 1
    /\ Len(published) = LagMaxPub
    /\ Entry(subscriptions, 2) = X
    /\ lastSent[2] = [seq |-> LagMaxPub, channel |-> X, data |-> "p1"]

\* C14: lag-drop.  When a connection's ring has been overrun by the burst, the
\* oldest envelope the ring retained is still taken by the connection's sender
\* task, unless the connection stops being open first.
OldestRetained == LagMaxPub - RingLength + 1
C14_WriterGoesOnAfterLag ==
    \A c \in Conns :
        (lagged[c] /\ queue[c] # << >> /\ Head(queue[c]).seq = OldestRetained)
            ~> (lastRecv[c] >= OldestRetained \/ rpc[c] # "read")

\* C15: per-connection ordering.  Envelopes are numbered in the order of their
\* publish; a connection's receiver holds them in that order, all later than
\* the one its sender task took last; the sender task takes them in that
\* order; and every envelope sent to the client is the one taken last, as it
\* was published, and is later in the publish order than every envelope sent
\* to that client before.
C15_SentInPublishOrder ==
    /\ [](/\ \A n \in 1..Len(published) : published[n].seq = n
          /\ \A c \in Conns :
                /\ \A i \in 1..Len(queue[c]) :
                    /\ queue[c][i].seq > lastRecv[c]
                    /\ i > 1 => queue[c][i].seq > queue[c][i - 1].seq
                /\ wmsg[c] # NoMsg => wmsg[c].seq = lastRecv[c]
                /\ lastSent[c].seq <= lastRecv[c])
    /\ [][/\ published' # published =>
                /\ Len(published') = Len(published) + 1
                /\ \A n \in 1..Len(published) : published'[n] = published[n]
          /\ \A c \in Conns :
                /\ lastRecv'[c] # lastRecv[c] => lastRecv'[c] > lastRecv[c]
                /\ SendOk(c) =>
                    /\ lastSent'[c].seq > lastSent[c].seq
                    /\ lastSent'[c].seq = wmsg[c].seq
                    /\ lastSent'[c].channel = published[wmsg[c].seq].channel
                    /\ lastSent'[c].data = published[wmsg[c].seq].data
                /\ lastSent'[c] # lastSent[c] => SendOk(c)]_vars

\* Connection 1 was sent envelope 1 and its sender task, having taken envelope
\* 2 and found the connection subscribed to its channel, is about to send it,
\* while connection 2 has been sent envelope 2 already.
C15_Witness ==
    /\ lastSent[1].seq = 1 /\ lastSent[1].channel = X
    /\ wpc[1] = "send" /\ wmsg[1].seq = 2 /\ wmsg[1].channel = X
    /\ lastSent[2].seq = 2

\* Frames that are no command of the protocol: a non-text frame, a text that
\* is neither a JSON object nor a JSON array, an object that repeats one of
\* the two keys, an array of more than two elements, an object or array
\* without a type or with an unknown one, and a SUBSCRIBE without the channel
\* it requires.
NotACommand(f) ==
    \/ f.kind # "text"
    \/ f.json = "none"
    \/ f.json = "object" /\ f.dup
    \/ f.json = "array" /\ f.extra
    \/ f.type \notin {"SUBSCRIBE", "UNSUBSCRIBE"}
    \/ f.type = "SUBSCRIBE" /\ f.channel = Absent

\* C16: a frame that is no command is taken by the receiver loop of every open
\* connection and changes nothing: the loop stays at its read, the registry and
\* the connection's subscription stay as they were, and nothing is sent.
C16_NotACommandChangesNothing ==
    [](\A c \in Conns, f \in Frames :
        (rpc[c] = "read" /\ NotACommand(f)) =>
            /\ ENABLED ClientFrame(c, f)
            /\ ~ENABLED (ClientFrame(c, f) /\ vars' # vars))

\* Connection 1 is subscribed and has been sent an envelope, connection 2 is
\* open without a subscription; each takes a binary frame, an unknown command
\* and a SUBSCRIBE array of three elements and is left as it was.
C16_Witness ==
    /\ rpc[1] = "read" /\ Entry(subscriptions, 1) = X /\ lastSent[1].seq = 1
    /\ rpc[2] = "read" /\ Entry(subscriptions, 2) = NoChan
    /\ \A c \in Conns :
        /\ ENABLED (ClientFrame(c, TextFrame("PING", "job:1")) /\ UNCHANGED vars)
        /\ ENABLED (ClientFrame(c, Binary) /\ UNCHANGED vars)
        /\ ENABLED (/\ ClientFrame(c, LongArrayFrame("SUBSCRIBE", "job:1"))
                    /\ UNCHANGED vars)

\* C17: an UNSUBSCRIBE frame without a channel field removes the subscription
\* of the connection that sends it, as one with a channel does.
C17_UnsubscribeWithoutChannelApplied ==
    \A c \in Conns :
        (rpc[c] = "read" /\ c \in DOMAIN subscriptions) =>
            /\ ENABLED (ClientFrame(c, TextFrame("UNSUBSCRIBE", "job:1"))
                        /\ c \notin DOMAIN subscriptions')
            /\ ENABLED (ClientFrame(c, TextFrame("UNSUBSCRIBE", Absent))
                        /\ c \notin DOMAIN subscriptions')

\* A step of the relay task.
RelayStep ==
    \/ \E ok \in BOOLEAN : RelayConnect(ok)
    \/ \E ok \in BOOLEAN : RelayPsubscribe(ok)
    \/ \E ch \in ExternalChannels, p \in ExtPayloads : RelayMessage(ch, p)
    \/ RelayStreamEnd
    \/ RelaySleepDone

\* C18: the relay has no terminal state.  It is always connecting,
\* subscribing, listening or sleeping, and in each of these it has a next step;
\* a failed connection attempt and a failed subscription lead to the sleep and
\* nowhere else, and the sleep is always followed by a new connection attempt;
\* the end of the stream leads to a new connection attempt at once.  There is
\* no count of failures in any of this: the same holds after every one.
C18_RelayNeverEnds ==
    /\ [](relay \in {"connect", "psubscribe", "listen", "sleep"})
    /\ [](ENABLED RelayStep)
    /\ [][/\ (relay = "connect" /\ relay' # relay)
                => relay' \in {"psubscribe", "sleep"}
          /\ (relay = "psubscribe" /\ relay' # relay)
                => relay' \in {"listen", "sleep"}
          /\ (relay = "listen" /\ relay' # relay) => relay' = "connect"
          /\ (relay = "sleep" /\ relay' # relay) => relay' = "connect"]_vars
    /\ (relay = "sleep") ~> (relay = "connect")

\* The relay is about to connect once more after it has been through each way
\* of leaving an attempt: a failed connection, a failed subscription, and the
\* end of the stream of a session that had been established.
C18_Witness ==
    /\ relay = "connect"
    /\ drops = {"connect", "subscribe", "end"}
    /\ sessions >= 1

\* C19: every new connection attempt of the relay other than the first one
\* comes out of the backoff sleep, whatever ended the attempt before it.
C19_BackoffBeforeEveryReconnect ==
    [][(relay' = "connect" /\ relay # "connect") => relay = "sleep"]_vars

\* C20: a message whose payload cannot be extracted is skipped.  The relay
\* takes it in every state of a session; taking it publishes nothing, puts
\* nothing into any receiver and leaves the relay listening on the same
\* session; and a well-formed message can be published from the state it
\* leaves, however many were skipped before.  Only extracted payloads are ever
\* published.
C20_MalformedMessageSkipped ==
    /\ [](relay = "listen" =>
            \A ch \in ExternalChannels :
                REDIS_CHANNEL_PATTERN(ch) =>
                    /\ ENABLED RelayMessage(ch, BadPayload)
                    /\ ~ENABLED (/\ RelayMessage(ch, BadPayload)
                                 /\ \/ published' # published
                                    \/ queue' # queue
                                    \/ relay' # "listen"
                                    \/ sessions' # sessions)
                    /\ ENABLED (/\ RelayMessage(ch, "p1")
                                /\ Len(published') = Len(published) + 1))
    /\ [][/\ skipped' > skipped =>
                /\ relay = "listen" /\ relay' = "listen"
                /\ published' = published /\ queue' = queue
                /\ sessions' = sessions
          /\ published' # published =>
                published'[Len(published')].data \in Payloads]_vars

\* In its first session the relay skipped a malformed message and then
\* published a well-formed one, which connection 1 has been sent; the relay is
\* still listening on that session.
C20_Witness ==
    /\ relay = "listen" /\ sessions = 1 /\ skipped = 1
    /\ Len(pubAt) = 1 /\ pubAt[1] = [session |-> 1, skipped |-> 1]
    /\ lastSent[1] = [seq |-> 1, channel |-> X, data |-> "p1"]

\* The session, registry and bus state: everything but the relay's own.
hubVars == <<subscriptions, connections, rpc, wpc, wmsg, queue, lagged,
             published, lastRecv, lastSent, lastName, removeCount>>

\* C21: relay failure is isolated.  A step of the relay that is not the
\* publish of a message (a failed connection or subscription, the end of the
\* stream, the end of the sleep, a new connection or subscription, a skipped
\* message) changes nothing of the registry, the bus or any session.  While
\* the relay is not listening nothing is published and nothing enters any
\* receiver; a connection can be accepted, an open connection stays open, and
\* its SUBSCRIBE and UNSUBSCRIBE are applied to the registry.
C21_RelayFailureIsolated ==
    /\ [][/\ (relayVars' # relayVars /\ published' = published)
                => hubVars' = hubVars
          /\ relay # "listen" =>
                /\ published' = published
                /\ \A c \in Conns :
                    /\ Len(queue'[c]) <= Len(queue[c])
                    /\ lastRecv'[c] # lastRecv[c] => queue[c] # << >>]_vars
    /\ [](relay # "listen" =>
            \A c \in RelayConns :
                /\ rpc[c] = "new" => ENABLED Accept(c)
                /\ rpc[c] = "read" =>
                    /\ ENABLED (/\ ClientFrame(c, TextFrame("SUBSCRIBE", "job:1"))
                                /\ Entry(subscriptions', c) = X
                                /\ rpc'[c] = "read")
                    /\ ENABLED (/\ ClientFrame(c, TextFrame("UNSUBSCRIBE", "job:1"))
                                /\ Entry(subscriptions', c) = NoChan
                                /\ rpc'[c] = "read"))

\* The external bus has never been reachable: the relay has failed to connect
\* and to subscribe and is asleep, no session was ever established and nothing
\* was published.  Connection 1 is open all the same, its SUBSCRIBE was
\* applied, and it has received nothing.
C21_Witness ==
    /\ relay = "sleep" /\ sessions = 0
    /\ drops = {"connect", "subscribe"}
    /\ published = << >>
    /\ rpc[1] = "read" /\ wpc[1] = "recv"
    /\ Entry(subscriptions, 1) = X /\ lastName[1] = "job:1"
    /\ lastRecv[1] = 0 /\ queue[1] = << >> /\ lastSent[1] = NoSend

\* The channel and payload of an envelope or of a text sent to a client.
Content(m) == [channel |-> m.channel, data |-> m.data]

\* C22: verbatim pass-through.  The bus is published to only by the relay's
\* message step, and the envelope it publishes for the external message
\* (ch, p) is {channel: ch, data: p}; every copy of an envelope in a receiver
\* or in the hand of a sender task has the channel and data it was published
\* with, and so has every text sent to a client.
C22_VerbatimPassThrough ==
    /\ [][/\ published' # published =>
                \E ch \in ExternalChannels, p \in ExtPayloads :
                    /\ RelayMessage(ch, p)
                    /\ GetPayloadOk(p)
                    /\ Content(published'[Len(published')])
                            = [channel |-> ch, data |-> p]
          /\ \A c \in Conns :
                SendOk(c) =>
                    /\ Content(lastSent'[c]) = Content(wmsg[c])
                    /\ Content(lastSent'[c]) = Content(published[lastSent'[c].seq])
         ]_vars
    /\ [](\A c \in Conns :
            /\ \A i \in 1..Len(queue[c]) :
                Content(queue[c][i]) = Content(published[queue[c][i].seq])
            /\ wmsg[c] # NoMsg =>
                Content(wmsg[c]) = Content(published[wmsg[c].seq])
            /\ lastSent[c] # NoSend =>
                Content(lastSent[c]) = Content(published[lastSent[c].seq]))

\* The relay, in its first session and with no message skipped, has published
\* the external message (ws_channel:job:1, p1) and a second one; connection 1
\* has been sent the first as {channel: ws_channel:job:1, data: p1} and holds
\* the second in its receiver.
C22_Witness ==
    /\ relay = "listen" /\ sessions = 1 /\ skipped = 0
    /\ Len(published) = 2
    /\ Content(published[1]) = [channel |-> X, data |-> "p1"]
    /\ lastSent[1] = [seq |-> 1, channel |-> X, data |-> "p1"]
    /\ Len(queue[1]) = 1 /\ Content(queue[1][1]) = Content(published[2])

\* C23: no replay.  A connection that has not been accepted has no receiver
\* content, and its receiver is empty when it is created, whatever has been
\* published by then; the only envelope that ever enters a receiver is the one
\* published in that very step; the sender task takes envelopes from its own
\* receiver only and sends only the one it took.  So no envelope published
\* before the receiver was created is received or forwarded, whatever the
\* connection subscribes to later.
C23_NoReplay ==
    /\ [](\A c \in Conns :
            rpc[c] = "new" =>
                /\ queue[c] = << >> /\ wmsg[c] = NoMsg
                /\ lastRecv[c] = 0 /\ lastSent[c] = NoSend)
    /\ [][\A c \in Conns :
            /\ (rpc[c] = "new" /\ rpc'[c] # "new") =>
                    /\ queue'[c] = << >> /\ wmsg'[c] = NoMsg
                    /\ lastRecv'[c] = 0
            /\ \A i \in 1..Len(queue'[c]) :
                    \/ \E j \in 1..Len(queue[c]) :
                            queue[c][j].seq = queue'[c][i].seq
                    \/ /\ published' # published
                       /\ rpc[c] # "new"
                       /\ queue'[c][i].seq = Len(published')
            /\ lastRecv'[c] # lastRecv[c] =>
                    /\ queue[c] # << >>
                    /\ lastRecv'[c] = Head(queue[c]).seq
            /\ wmsg'[c] # NoMsg => wmsg'[c].seq = lastRecv'[c]
            /\ SendOk(c) => lastSent'[c].seq = lastRecv[c]]_vars

\* Envelope 1 was published on X and sent to connection 1.  Connection 2 is
\* open and subscribed to X, its sender task is at its receive and was never
\* overrun, and it has neither received nor been left anything: its receiver
\* was created after the publish.
C23_Witness ==
    /\ Len(published) = 1 /\ published[1].channel = X
    /\ lastSent[1].seq = 1
    /\ rpc[2] = "read" /\ wpc[2] = "recv" /\ ~lagged[2]
    /\ Entry(subscriptions, 2) = X
    /\ queue[2] = << >> /\ lastRecv[2] = 0 /\ lastSent[2] = NoSend

\* C24: the guard of the subscriptions is held only for a map read or write.
\* The sender task holds it only at its lookup, the receiver loop only inside
\* subscribe, unsubscribe or the unsubscribe of remove_connection.  No task
\* that holds it receives from the bus, reports a lag, sends on the client
\* transport, reads the socket or leaves its loop, and the step of the holder
\* that reads or writes the map drops the guard.
C24_NoIoUnderLock ==
    /\ [](\A c \in Conns :
            /\ subsLock = Writer(c) => wpc[c] = "lookup"
            /\ subsLock = Reader(c) =>
                    \/ rpc[c] = "read" /\ rcmd[c] # NoFrame
                    \/ rpc[c] = "remove_unsub")
    /\ [][\A c \in Conns :
            /\ (wpc[c] \in {"recv", "send"} /\ wpc'[c] # wpc[c]) =>
                    subsLock # Writer(c)
            /\ (lastRecv'[c] # lastRecv[c] \/ lastSent'[c] # lastSent[c]) =>
                    subsLock # Writer(c)
            /\ (rpc[c] = "read" /\ rcmd[c] = NoFrame
                    /\ (rpc'[c] # "read" \/ rcmd'[c] # NoFrame)) =>
                    subsLock # Reader(c)
            /\ (subsLock = Writer(c) /\ wpc'[c] # wpc[c]) => subsLock' = NoTask
            /\ (subsLock = Reader(c)
                    /\ (subscriptions' # subscriptions \/ rpc'[c] # rpc[c]
                        \/ rcmd'[c] # rcmd[c])) => subsLock' = NoTask]_vars

\* The sender task of connection 1 holds the guard for its lookup of envelope
\* 1, the receiver loop of connection 2 waits for the guard with a SUBSCRIBE,
\* and the sender task of connection 2, which holds nothing, is about to send
\* the same envelope to its client.
C24_Witness ==
    /\ subsLock = Writer(1) /\ wpc[1] = "lookup" /\ wmsg[1].seq = 1
    /\ rpc[2] = "read" /\ rcmd[2] = TextFrame("SUBSCRIBE", "job:1")
    /\ wpc[2] = "send" /\ wmsg[2].seq = 1

\* C25: the entry of a connection is changed by that connection's receiver
\* loop and teardown alone.  A frame of connection a (SUBSCRIBE, UNSUBSCRIBE
\* or one that is no command), the end of its loop and both steps of its
\* teardown leave the entry of every other connection as it was, present or
\* not; and whenever the entry of b changes, the step is a SUBSCRIBE or an
\* UNSUBSCRIBE read from b or the unsubscribe of b's teardown.
C25_EntryChangedByOwnerOnly ==
    [][\A a \in Conns :
        /\ ( \/ \E f \in Frames : ClientFrame(a, f)
             \/ \E cause \in {"close", "error", "end"} : ClientGone(a, cause)
             \/ RemoveUnsubscribe(a)
             \/ RemoveConnection(a) ) =>
                \A b \in Conns \ {a} :
                    /\ Entry(subscriptions', b) = Entry(subscriptions, b)
                    /\ (b \in DOMAIN subscriptions') = (b \in DOMAIN subscriptions)
        /\ ( \/ Entry(subscriptions', a) # Entry(subscriptions, a)
             \/ (a \in DOMAIN subscriptions') # (a \in DOMAIN subscriptions) ) =>
                \/ \E f \in Frames : IsRegistryCommand(f) /\ ClientFrame(a, f)
                \/ RemoveUnsubscribe(a)]_vars

\* Connection 2 was subscribed, was sent envelope 1, and has gone through its
\* whole teardown; connection 1, subscribed under the already prefixed name,
\* is still reading and still holds its entry.
C25_Witness ==
    /\ rpc[2] = "done" /\ removeCount[2] = 1 /\ lastSent[2].seq = 1
    /\ 2 \notin DOMAIN subscriptions
    /\ rpc[1] = "read" /\ lastName[1] = "ws_channel:job:1"
    /\ Entry(subscriptions, 1) = Y

\* C26: a publish while no receiver of the bus exists is no error.  The relay
\* hands the envelope to the bus, no queue takes it, and the relay stays in
\* its message loop: no reconnect, no backoff, nothing added to the causes of
\* a lost attempt.  While the relay listens the next message can always be
\* handed over, and every receiver that exists at a publish is left the new
\* envelope, so a connection opened after a lost envelope gets the later ones.
C26_PublishWithoutReceiver ==
    /\ [][\A ch \in ExternalChannels, p \in Payloads :
            (RelayMessage(ch, p) /\ \A c \in Conns : ~HasReceiver(c)) =>
                /\ relay' = "listen"
                /\ sessions' = sessions /\ skipped' = skipped /\ drops' = drops
                /\ Len(published') = Len(published) + 1
                /\ queue' = queue /\ lagged' = lagged
                /\ <<subscriptions, connections, rpc, wpc, wmsg, lastRecv,
                     lastSent>>' =
                   <<subscriptions, connections, rpc, wpc, wmsg, lastRecv,
                     lastSent>>]_vars
    /\ [][\A c \in RelayConns :
            (published' # published /\ HasReceiver(c)) =>
                /\ queue'[c] # << >>
                /\ queue'[c][Len(queue'[c])].seq = Len(published')
                /\ relay' = "listen"]_vars
    /\ [](relay = "listen" =>
            ENABLED (/\ RelayMessage(X, "p1")
                     /\ relay' = "listen" /\ drops' = drops
                     /\ Len(published') = Len(published) + 1))

\* The relay is in its first session and has lost no attempt.  It has handed
\* over two envelopes in that session; connection 1 is subscribed to X, its
\* sender task has received nothing yet and was never overrun, and its
\* receiver holds envelope 2 alone: envelope 1 was sent when no receiver
\* existed.
C26_Witness ==
    /\ relay = "listen" /\ sessions = 1 /\ drops = {} /\ skipped = 0
    /\ Len(published) = 2 /\ SessionOf(1) = 1 /\ SessionOf(2) = 1
    /\ rpc[1] = "read" /\ wpc[1] = "recv" /\ ~lagged[1] /\ lastRecv[1] = 0
    /\ Entry(subscriptions, 1) = X
    /\ Len(queue[1]) = 1 /\ queue[1][1].seq = 2 /\ queue[1][1].channel = X

\* C27: a SUBSCRIBE that names n stores "ws_channel:" followed by n, whatever
\* n is.  Every value of the registry is "ws_channel:" followed by the name
\* its connection last subscribed with, and the lookup of the sender task lets
\* through exactly the envelopes whose channel is that value.
C27_RegistryHoldsPrefixedName ==
    /\ [](\A c \in DOMAIN subscriptions :
            /\ lastName[c] \in ClientNames
            /\ subscriptions[c] = "ws_channel:" \o lastName[c])
    /\ [][\A c \in Conns :
            /\ \A n \in ClientNames :
                ClientFrame(c, TextFrame("SUBSCRIBE", n)) =>
                    /\ c \in DOMAIN subscriptions'
                    /\ subscriptions'[c] = "ws_channel:" \o n
            /\ LookupStep(c) =>
                (wpc'[c] = "send") =
                    /\ c \in DOMAIN subscriptions
                    /\ wmsg[c].channel = "ws_channel:" \o lastName[c]]_vars

\* Connection 1 subscribed with job:1 and holds X; it was sent envelope 1,
\* published on X.  Connection 2 subscribed with the already prefixed name and
\* holds the doubly prefixed Y; its sender task received the same envelope
\* and sent nothing.
C27_Witness ==
    /\ lastName[1] = "job:1" /\ Entry(subscriptions, 1) = X
    /\ lastSent[1].seq = 1 /\ lastSent[1].channel = X
    /\ lastName[2] = "ws_channel:job:1" /\ Entry(subscriptions, 2) = Y
    /\ lastRecv[2] = 1 /\ wpc[2] = "recv" /\ lastSent[2] = NoSend

\* C28: a message given to ConnectionManager::broadcast reaches all clients:
\* whatever the subscription of a connection, its sender task forwards the
\* envelope of the broadcast when it looks it up.
C28_BroadcastReachesAll ==
    [][\A c \in RelayConns :
        (LookupStep(c) /\ wmsg[c].channel = "broadcast") => wpc'[c] = "send"]_vars

\* The handler's own task is in no call of subscribe, unsubscribe or
\* remove_connection.
ReaderOutsideCall(c) ==
    /\ rcmd[c] = NoFrame
    /\ rpc[c] \notin {"remove_unsub", "remove_conn"}

\* C29: the registry operations never deadlock.  No task holds the guard of
\* the subscriptions and the guard of the connections together: the guard of
\* the connections is held only in the last step of remove_connection, after
\* the unsubscribe has dropped the other.  Every guard that is taken is
\* dropped again, and every subscribe or unsubscribe a receiver loop has
\* called, every remove_connection and every lookup of a sender task comes to
\* its end, however the connections interleave: a guard is held only by a
\* task inside such a call, and again and again the handler's task is outside
\* every call and the sender task is not at its lookup.
C29_NoDeadlock ==
    /\ [](\A c \in Conns :
            /\ ~(subsLock = Reader(c) /\ connLock = Reader(c))
            /\ connLock = Reader(c) => rpc[c] = "remove_conn"
            /\ connLock # Writer(c)
            /\ subsLock = Reader(c) => ~ReaderOutsideCall(c)
            /\ subsLock = Writer(c) => wpc[c] = "lookup")
    /\ \A c \in Conns :
        /\ []<>ReaderOutsideCall(c)
        /\ []<>(wpc[c] # "lookup")

\* Connection 1 is in remove_connection: its unsubscribe is done and it holds
\* the guard of the connections.  At the same time the receiver loop of
\* connection 2 holds the guard of the subscriptions for an UNSUBSCRIBE, and
\* the sender task of connection 1 waits for it with envelope 1.
C29_Witness ==
    /\ rpc[1] = "remove_conn" /\ connLock = Reader(1)
    /\ 1 \notin DOMAIN subscriptions
    /\ subsLock = Reader(2) /\ rcmd[2] = TextFrame("UNSUBSCRIBE", "job:1")
    /\ wpc[1] = "lookup" /\ wmsg[1].seq = 1

\* The connections whose receiver loop is running or whose remove_connection
\* has not yet run its unsubscribe.
NotYetRemoved == {c \in Conns : rpc[c] \in {"read", "remove_unsub"}}

\* C30: the registry holds no stale entry.  Every id in the registry is the id
\* of a connection that has not yet gone through the unsubscribe of its
\* teardown, so there are never more entries than such connections; an entry
\* is written only by a receiver loop that is still reading, and once
\* remove_connection has run for a connection its id is never in the registry
\* again.
C30_NoStaleEntries ==
    /\ [](/\ DOMAIN subscriptions \subseteq NotYetRemoved
          /\ Cardinality(DOMAIN subscriptions) <= Cardinality(NotYetRemoved)
          /\ \A c \in Conns : removeCount[c] >= 1 => c \notin DOMAIN subscriptions)
    /\ [][\A c \in Conns :
            (c \in DOMAIN subscriptions' /\ c \notin DOMAIN subscriptions) =>
                rpc[c] = "read" /\ rpc'[c] = "read"]_vars

\* Connection 1 was subscribed and was sent envelope 1; its teardown is over
\* and its id is gone from the registry, though its sender task still waits
\* at its receive.  Connection 2 has left its loop and its entry is still
\* there, to be removed by the remove_connection that comes next.
C30_Witness ==
    /\ rpc[1] = "done" /\ removeCount[1] = 1 /\ lastSent[1].seq = 1
    /\ wpc[1] = "recv"
    /\ rpc[2] = "remove_unsub" /\ Entry(subscriptions, 2) = X
    /\ DOMAIN subscriptions = {2}

\* C31: no duplication.  The relay task holds at most one pattern
\* subscription: it holds one exactly while it listens, and none when it
\* makes a connection attempt, sleeps or subscribes.  A message it receives
\* adds one envelope to the bus if its payload can be extracted and none
\* otherwise, and at most one copy to any receiver.  No two published
\* envelopes and no two copies in a receiver have the same number, what a
\* sender task holds or is still to receive was never sent to its client,
\* and every send to a client is of an envelope later than all sent to it
\* before, in whichever session of the relay they were published.
C31_NoDuplication ==
    /\ [](/\ pubsub <= 1
          /\ (pubsub = 1) = (relay = "listen")
          /\ relay \in {"connect", "psubscribe", "sleep"} => pubsub = 0
          /\ \A i, j \in 1..Len(published) :
                i # j => published[i].seq # published[j].seq
          /\ \A i \in 2..Len(pubAt) : SessionOf(i) >= SessionOf(i - 1)
          /\ \A c \in RelayConns :
                /\ \A i, j \in 1..Len(queue[c]) :
                        i # j => queue[c][i].seq # queue[c][j].seq
                /\ \A i \in 1..Len(queue[c]) : queue[c][i].seq > lastSent[c].seq
                /\ wmsg[c] # NoMsg => wmsg[c].seq > lastSent[c].seq)
    /\ [][/\ \A ch \in ExternalChannels, p \in ExtPayloads :
                RelayMessage(ch, p) =>
                    /\ Len(published') =
                            Len(published) + (IF GetPayloadOk(p) THEN 1 ELSE 0)
                    /\ \A c \in RelayConns :
                            Len(queue'[c]) <= Len(queue[c]) + 1
          /\ Len(published') <= Len(published) + 1
          /\ \A c \in RelayConns :
                /\ SendOk(c) => lastSent'[c].seq > lastSent[c].seq
                /\ lastSent'[c] # lastSent[c] => SendOk(c)]_vars

\* The relay listens in its second session, holding one subscription, after
\* the stream of the first had ended.  One envelope was published in each
\* session; connection 1, subscribed to X all along, was sent the first and
\* then the second, and its receiver and its sender task hold nothing more.
C31_Witness ==
    /\ relay = "listen" /\ pubsub = 1 /\ sessions = 2 /\ drops = {"end"}
    /\ Len(published) = 2 /\ SessionOf(1) = 1 /\ SessionOf(2) = 2
    /\ published[1].channel = X /\ published[2].channel = X
    /\ rpc[1] = "read" /\ Entry(subscriptions, 1) = X
    /\ lastRecv[1] = 2 /\ lastSent[1].seq = 2
    /\ queue[1] = << >> /\ wmsg[1] = NoMsg /\ wpc[1] = "recv" /\ ~lagged[1]

====
